---- MODULE Spec2Model ----
(***************************************************************************)
(* Model of iroh-net/src/discovery.rs: the Discovery capability, the       *)
(* ConcurrentDiscovery aggregator, the needs_discovery predicate and the   *)
(* DiscoveryTask with its handle.                                          *)
(*                                                                         *)
(* Spec      one DiscoveryTask lifecycle against one endpoint              *)
(* SpecPred  needs_discovery applied to every telemetry input              *)
(* SpecAgg   construction of a ConcurrentDiscovery and publish             *)
(***************************************************************************)
EXTENDS Integers, Sequences, FiniteSets, TLC

\* ---------------------------------------------------------------- bounds
\* Largest number of children registered in a ConcurrentDiscovery.
MaxChildren == 3
\* Largest total number of items the resolved substreams yield.
MaxItems == 2
\* Largest elapsed time (seconds) the telemetry reports in SpecPred.
MaxElapsed == 12
\* Largest number of publish calls in SpecAgg.
MaxPublish == 2

\* ------------------------------------------------------------ data model
\* const MAX_AGE: Duration = Duration::from_secs(10), in seconds.
MAX_AGE == 10

\* Option::None of an Option<Duration>.
NoDuration == -1

ChildIds == 1..MaxChildren

\* AddrInfo { relay_url: Option<RelayUrl>, direct_addresses: BTreeSet<SocketAddr> }
NoRelay == "none"
\* The values used here: the empty one, one with a relay url only and one with
\* a direct address only.
AddrInfos ==
    {a \in [relay_url : {NoRelay, "r1"}, direct_addresses : SUBSET {"d1"}] :
        a.relay_url = NoRelay \/ a.direct_addresses = {}}

\* AddrInfo::is_empty (iroh-base): no relay url and no direct address.
IsEmpty(info) == info.relay_url = NoRelay /\ info.direct_addresses = {}

EmptyAddrInfo == [relay_url |-> NoRelay, direct_addresses |-> {}]

\* Result<DiscoveryItem>: Ok(DiscoveryItem { addr_info, .. }) or Err(_).
OkItem(info) == [kind |-> "ok", addr_info |-> info]
ErrItem == [kind |-> "err", addr_info |-> EmptyAddrInfo]
Items == {OkItem(a) : a \in AddrInfos} \cup {ErrItem}

\* Option::None returned by Discovery::resolve: the provider declines.
NoStream == <<[kind |-> "declined", addr_info |-> EmptyAddrInfo]>>

\* ep.connection_info(node_id): None, or Some(info) with the two elapsed
\* times info.last_received() and info.last_alive_relay().
NoConnInfo == [known |-> FALSE, last_received |-> NoDuration, last_alive_relay |-> NoDuration]
ConnInfo(d, r) == [known |-> TRUE, last_received |-> d, last_alive_relay |-> r]
Elapsed == {NoDuration} \cup (0..MaxElapsed)
ConnInfos == {NoConnInfo} \cup {ConnInfo(d, r) : d \in Elapsed, r \in Elapsed}
\* Telemetry values the task lifecycle is run against: a direct path fresh at
\* exactly MAX_AGE and one just past MAX_AGE (SpecPred covers all of ConnInfos).
ConnInfoSamples == {ConnInfo(MAX_AGE, NoDuration), ConnInfo(MAX_AGE + 1, NoDuration)}

\* The node id every task of the model resolves.
TargetNode == "node"

\* ------------------------------------------------------------------ state
VARIABLES
    provider,      \* ep.discovery(): "none", "single" backend or "concurrent"
    services,      \* ConcurrentDiscovery.services, in registration order
    calls,         \* calls received by the children, in order
    conn_info,     \* ep.connection_info(node_id)
    ep_cancelled,  \* ep.cancelled() has fired
    ret,           \* what start / maybe_start_after_delay returned
    handle,        \* the DiscoveryTask handle: "none", "held", "dropped"
    aborted,       \* JoinHandle::abort has been called on the task
    pc,            \* position of the spawned future
    on_first_tx,   \* the oneshot sender: "none", "some", "taken", "dropped"
    sent,          \* values passed to on_first_tx.send, in order
    arrived,       \* what first_arrived() returned, "pending" before
    streams,       \* per child: the substream its resolve returned
    pos,           \* per child: number of items the merge has taken
    stream,        \* the merged stream of run(): "none", "open", "dropped"
    cur,           \* the item of the current loop iteration
    add_res,       \* what ep.add_node_addr returned for it: "none" before the call
    book,          \* NodeAddrs passed to ep.add_node_addr, in order
    pred_called,   \* SpecPred: needs_discovery has been evaluated
    pred_result,   \* SpecPred: its result
    published,     \* SpecAgg: the AddrInfo of each publish call on the aggregator
    pulled         \* SpecMerge: what the consumer of the merged stream received

vars == <<provider, services, calls, conn_info, ep_cancelled, ret, handle,
          aborted, pc, on_first_tx, sent, arrived, streams, pos, stream, cur,
          add_res, book, pred_called, pred_result, published, pulled>>

\* --------------------------------------------------------- pure functions
\* Variant of needs_discovery comparing with >= instead of >.
needs_discovery_ge(info) ==
    IF ~info.known THEN TRUE
    ELSE CASE info.last_received = NoDuration /\ info.last_alive_relay = NoDuration -> TRUE
           [] info.last_received # NoDuration /\ info.last_alive_relay # NoDuration ->
                 info.last_received >= MAX_AGE /\ info.last_alive_relay >= MAX_AGE
           [] info.last_received # NoDuration -> info.last_received >= MAX_AGE
           [] OTHER -> info.last_alive_relay >= MAX_AGE

\* DiscoveryTask::needs_discovery
needs_discovery(info) ==
    IF ~info.known THEN TRUE
    ELSE CASE info.last_received = NoDuration /\ info.last_alive_relay = NoDuration -> TRUE
           [] info.last_received # NoDuration /\ info.last_alive_relay # NoDuration ->
                 info.last_received > MAX_AGE /\ info.last_alive_relay > MAX_AGE
           [] info.last_received # NoDuration -> info.last_received > MAX_AGE
           [] OTHER -> info.last_alive_relay > MAX_AGE

\* ------------------------------------------------- ConcurrentDiscovery
\* One call received by a child provider.
PublishCall(c, info) == [op |-> "publish", child |-> c, node |-> "", addr_info |-> info]
ResolveCall(c, node) == [op |-> "resolve", child |-> c, node |-> node, addr_info |-> EmptyAddrInfo]

\* ConcurrentDiscovery::empty
empty == <<>>

\* ConcurrentDiscovery::from_services
from_services(svcs) == svcs

\* impl From<T> for ConcurrentDiscovery: collects the iterator into the Vec.
from(iter) == [i \in 1..Len(iter) |-> iter[i]]

\* ConcurrentDiscovery::add
add(svcs, service) == Append(svcs, service)

\* ConcurrentDiscovery::publish: for service in &self.services { service.publish(info) }
RECURSIVE publish_from(_, _, _, _)
publish_from(svcs, i, log, info) ==
    IF i > Len(svcs) THEN log
    ELSE publish_from(svcs, i + 1, Append(log, PublishCall(svcs[i], info)), info)

\* Variant of publish whose loop misses the first service.
publish_skip_first(svcs, log, info) == publish_from(svcs, 2, log, info)

publish(svcs, log, info) == publish_from(svcs, 1, log, info)

\* The resolve calls ConcurrentDiscovery::resolve makes: one per service, in
\* order (the filter_map is consumed by Merge::from_iter before resolve returns).
RECURSIVE resolve_from(_, _, _, _)
resolve_from(svcs, i, log, node) ==
    IF i > Len(svcs) THEN log
    ELSE resolve_from(svcs, i + 1, Append(log, ResolveCall(svcs[i], node)), node)

\* Substreams a backend may return: at most b items, a failure item is last.
ScriptsUpTo(b) ==
    {s \in UNION {[1..k -> Items] : k \in 0..b} :
        \A i \in 1..(Len(s) - 1) : s[i].kind = "ok"}

StreamLen(s) == IF s = NoStream THEN 0 ELSE Len(s)

\* What the n first children answer to resolve: a substream or NoStream each.
RECURSIVE ResolveOutcomes(_, _)
ResolveOutcomes(n, budget) ==
    IF n = 0 THEN {<<>>}
    ELSE UNION {{Append(o, s) : o \in ResolveOutcomes(n - 1, budget - StreamLen(s))} :
                   s \in {NoStream} \cup ScriptsUpTo(budget)}

\* Variant of MergeReady in which a failure item of one child ends the merge.
MergeReady_stop_on_err ==
    IF \E j \in 1..Len(streams) :
          streams[j] # NoStream /\ pos[j] >= 1 /\ streams[j][pos[j]].kind = "err"
    THEN {}
    ELSE {i \in 1..Len(streams) : streams[i] # NoStream /\ pos[i] < Len(streams[i])}

\* Children whose substream is part of the Merge and has an item left.
MergeReady == {i \in 1..Len(streams) : streams[i] # NoStream /\ pos[i] < Len(streams[i])}

\* The Merge yields None once every substream it holds has ended.
MergeEnded == MergeReady = {}

\* ------------------------------------------------------- the oneshot
\* on_first_tx.send(v).ok(), consuming the sender
Send(v) == /\ on_first_tx' = "taken"
           /\ sent' = Append(sent, v)

\* Variant of TakeAndSend that sends whether or not the sender was used.
TakeAndSend_always(v) == Send(v)

\* if let Some(tx) = on_first_tx.take() { tx.send(v).ok(); }
TakeAndSend(v) ==
    IF on_first_tx = "some" THEN Send(v)
    ELSE UNCHANGED <<on_first_tx, sent>>

\* Variant of AfterLoop that reports success.
AfterLoop_ok ==
    /\ TakeAndSend("ok")
    /\ pc' = "done"
    /\ stream' = "dropped"

\* After the loop of run(): resolve with "Discovery produced no results" if
\* the sender is unused; run() returns and drops the merged stream.
AfterLoop ==
    /\ TakeAndSend("err_no_results")
    /\ pc' = "done"
    /\ stream' = "dropped"

\* ----------------------------------------------------------------- Init
Init ==
    /\ provider \in {"none", "single", "concurrent"}
    /\ services \in IF provider = "none" THEN {empty}
                    ELSE IF provider = "single" THEN {<<1>>}
                    ELSE {from_services([i \in 1..n |-> i]) : n \in 0..MaxChildren}
    /\ calls = <<>>
    /\ conn_info \in ConnInfoSamples
    /\ ep_cancelled = FALSE
    /\ ret = "pending"
    /\ handle = "none"
    /\ aborted = FALSE
    /\ pc = "none"
    /\ on_first_tx = "none"
    /\ sent = <<>>
    /\ arrived = "pending"
    /\ streams = <<>>
    /\ pos = <<>>
    /\ stream = "none"
    /\ cur = ErrItem
    /\ add_res = "none"
    /\ book = <<>>
    /\ pred_called = FALSE
    /\ pred_result = FALSE
    /\ published = <<>>
    /\ pulled = <<>>

envVars == <<provider, services, conn_info, ep_cancelled>>
sideVars == <<pred_called, pred_result, published, pulled>>
streamVars == <<streams, pos, stream, cur, add_res>>

\* tokio::task::spawn(..) and Ok(Self { task, on_first_rx })
Spawn(start_pc) ==
    /\ ret' = "task"
    /\ handle' = "held"
    /\ on_first_tx' = "some"
    /\ pc' = start_pc

\* Variant of Start that consults the needs-discovery predicate first.
Start_checks_predicate ==
    /\ ret = "pending"
    /\ IF ~needs_discovery(conn_info)
       THEN /\ ret' = "no_task"
            /\ UNCHANGED <<handle, on_first_tx, pc>>
       ELSE IF provider = "none"
       THEN /\ ret' = "err_no_discovery"
            /\ UNCHANGED <<handle, on_first_tx, pc>>
       ELSE Spawn("spawned_run")
    /\ UNCHANGED <<envVars, calls, aborted, sent, arrived, streamVars, book, sideVars>>

\* DiscoveryTask::start
Start ==
    /\ ret = "pending"
    /\ IF provider = "none"
       THEN /\ ret' = "err_no_discovery"
            /\ UNCHANGED <<handle, on_first_tx, pc>>
       ELSE Spawn("spawned_run")
    /\ UNCHANGED <<envVars, calls, aborted, sent, arrived, streamVars, book, sideVars>>

\* Variant of maybe_start_after_delay whose ensure! precedes the predicate.
MaybeStartAfterDelay_ensure_first(has_delay) ==
    /\ ret = "pending"
    /\ IF provider = "none"
       THEN /\ ret' = "err_no_discovery"
            /\ UNCHANGED <<handle, on_first_tx, pc>>
       ELSE IF ~needs_discovery(conn_info)
       THEN /\ ret' = "no_task"
            /\ UNCHANGED <<handle, on_first_tx, pc>>
       ELSE Spawn(IF has_delay THEN "spawned_delay" ELSE "spawned_run")
    /\ UNCHANGED <<envVars, calls, aborted, sent, arrived, streamVars, book, sideVars>>

\* Variant of maybe_start_after_delay that, given a delay, leaves the
\* predicate to the spawned task.
MaybeStartAfterDelay_no_precheck(has_delay) ==
    /\ ret = "pending"
    /\ IF ~has_delay /\ ~needs_discovery(conn_info)
       THEN /\ ret' = "no_task"
            /\ UNCHANGED <<handle, on_first_tx, pc>>
       ELSE IF provider = "none"
       THEN /\ ret' = "err_no_discovery"
            /\ UNCHANGED <<handle, on_first_tx, pc>>
       ELSE Spawn(IF has_delay THEN "spawned_delay" ELSE "spawned_run")
    /\ UNCHANGED <<envVars, calls, aborted, sent, arrived, streamVars, book, sideVars>>

\* DiscoveryTask::maybe_start_after_delay
MaybeStartAfterDelay(has_delay) ==
    /\ ret = "pending"
    /\ IF ~needs_discovery(conn_info)
       THEN /\ ret' = "no_task"
            /\ UNCHANGED <<handle, on_first_tx, pc>>
       ELSE IF provider = "none"
       THEN /\ ret' = "err_no_discovery"
            /\ UNCHANGED <<handle, on_first_tx, pc>>
       ELSE Spawn(IF has_delay THEN "spawned_delay" ELSE "spawned_run")
    /\ UNCHANGED <<envVars, calls, aborted, sent, arrived, streamVars, book, sideVars>>

\* ------------------------------------------------------- the spawned task
\* Positions at which the future is suspended (or not yet polled): an abort
\* requested there drops the future without polling it again.  At every other
\* position the future is being polled and runs on to its next suspension.
Suspended == {"spawned_run", "spawned_delay", "sleep", "wait"}

\* First poll of the future: start and the no-delay path enter run(), the
\* delay path reaches tokio::time::sleep(delay).await.
TaskBegin ==
    /\ pc \in {"spawned_run", "spawned_delay"}
    /\ ~aborted
    /\ pc' = IF pc = "spawned_delay" THEN "sleep" ELSE "create_stream"
    /\ UNCHANGED <<envVars, calls, ret, handle, aborted, on_first_tx, sent, arrived,
                   streamVars, book, sideVars>>

\* Variant of SleepElapsed in which an aborted task is still polled.
SleepElapsed_ignores_abort ==
    /\ pc = "sleep"
    /\ pc' = "recheck"
    /\ UNCHANGED <<envVars, calls, ret, handle, aborted, on_first_tx, sent, arrived,
                   streamVars, book, sideVars>>

\* The sleep of the delay path elapses and the runtime polls the task again.
SleepElapsed ==
    /\ pc = "sleep"
    /\ ~aborted
    /\ pc' = "recheck"
    /\ UNCHANGED <<envVars, calls, ret, handle, aborted, on_first_tx, sent, arrived,
                   streamVars, book, sideVars>>

\* Variant of Recheck without the early exit.
Recheck_no_early_exit ==
    /\ pc = "recheck"
    /\ pc' = "create_stream"
    /\ UNCHANGED <<envVars, calls, ret, handle, aborted, on_first_tx, sent, arrived,
                   streamVars, book, sideVars>>

\* if !Self::needs_discovery(&ep, node_id) { on_first_tx.send(Ok(())).ok(); return; }
Recheck ==
    /\ pc = "recheck"
    /\ IF ~needs_discovery(conn_info)
       THEN /\ Send("ok")
            /\ pc' = "done"
       ELSE /\ pc' = "create_stream"
            /\ UNCHANGED <<on_first_tx, sent>>
    /\ UNCHANGED <<envVars, calls, ret, handle, aborted, arrived, streamVars, book, sideVars>>

\* Variant of CreateStream whose aggregator returns no stream when every
\* child declines.
CreateStream_none_if_all_decline ==
    /\ pc = "create_stream"
    /\ IF provider = "none"
       THEN /\ Send("err_no_discovery")
            /\ pc' = "done"
            /\ UNCHANGED <<calls, streamVars>>
       ELSE /\ calls' = resolve_from(services, 1, calls, TargetNode)
            /\ \E out \in ResolveOutcomes(Len(services), MaxItems) :
                 IF \A i \in 1..Len(out) : out[i] = NoStream
                 THEN /\ Send("err_no_resolve")
                      /\ pc' = "done"
                      /\ UNCHANGED streamVars
                 ELSE /\ streams' = out
                      /\ pos' = [i \in 1..Len(out) |-> 0]
                      /\ stream' = "open"
                      /\ pc' = "select"
                      /\ UNCHANGED <<cur, add_res, on_first_tx, sent>>
    /\ UNCHANGED <<envVars, ret, handle, aborted, arrived, book, sideVars>>

\* Variant of CreateStream that runs the loop over nothing when the provider
\* declines.
CreateStream_loops_on_none ==
    /\ pc = "create_stream"
    /\ IF provider = "none"
       THEN /\ Send("err_no_discovery")
            /\ pc' = "done"
            /\ UNCHANGED <<calls, streamVars>>
       ELSE /\ calls' = resolve_from(services, 1, calls, TargetNode)
            /\ \E out \in ResolveOutcomes(Len(services), MaxItems) :
                 /\ streams' = out
                 /\ pos' = [i \in 1..Len(out) |-> 0]
                 /\ stream' = "open"
                 /\ pc' = "select"
                 /\ UNCHANGED <<cur, add_res, on_first_tx, sent>>
    /\ UNCHANGED <<envVars, ret, handle, aborted, arrived, book, sideVars>>

\* DiscoveryTask::create_stream and the match on its result in run().  A
\* single backend may decline; the aggregator always returns a stream.
CreateStream ==
    /\ pc = "create_stream"
    /\ IF provider = "none"
       THEN /\ Send("err_no_discovery")
            /\ pc' = "done"
            /\ UNCHANGED <<calls, streamVars>>
       ELSE /\ calls' = resolve_from(services, 1, calls, TargetNode)
            /\ \E out \in ResolveOutcomes(Len(services), MaxItems) :
                 IF provider = "single" /\ out[1] = NoStream
                 THEN /\ Send("err_no_resolve")
                      /\ pc' = "done"
                      /\ UNCHANGED streamVars
                 ELSE /\ streams' = out
                      /\ pos' = [i \in 1..Len(out) |-> 0]
                      /\ stream' = "open"
                      /\ pc' = "select"
                      /\ UNCHANGED <<cur, add_res, on_first_tx, sent>>
    /\ UNCHANGED <<envVars, ret, handle, aborted, arrived, book, sideVars>>

\* Variant of SelectCancelled that returns without the code after the loop.
SelectCancelled_no_send ==
    /\ pc = "select"
    /\ ep_cancelled
    /\ pc' = "done"
    /\ stream' = "dropped"
    /\ on_first_tx' = IF on_first_tx = "some" THEN "dropped" ELSE on_first_tx
    /\ UNCHANGED <<envVars, calls, ret, handle, aborted, sent, arrived, streams, pos, cur, add_res,
                   book, sideVars>>

\* select!: the branch `_ = ep.cancelled() => break`, then the code after the loop.
SelectCancelled ==
    /\ pc = "select"
    /\ ep_cancelled
    /\ AfterLoop
    /\ UNCHANGED <<envVars, calls, ret, handle, aborted, arrived, streams, pos, cur, add_res, book,
                   sideVars>>

\* Variant of SelectItem without the is_empty check.
SelectItem_no_skip(i) ==
    /\ pc = "select"
    /\ i \in MergeReady
    /\ pos' = [pos EXCEPT ![i] = @ + 1]
    /\ LET r == streams[i][pos[i] + 1] IN
         IF r.kind = "err"
         THEN /\ AfterLoop
              /\ UNCHANGED <<cur, add_res>>
         ELSE /\ pc' = "add"
              /\ cur' = r
              /\ UNCHANGED <<add_res, stream, on_first_tx, sent>>
    /\ UNCHANGED <<envVars, calls, ret, handle, aborted, arrived, streams, book, sideVars>>

\* Variant of SelectItem that yields each child's items last first.
SelectItem_reversed(i) ==
    /\ pc = "select"
    /\ i \in MergeReady
    /\ pos' = [pos EXCEPT ![i] = @ + 1]
    /\ LET r == streams[i][Len(streams[i]) - pos[i]] IN
         IF r.kind = "err"
         THEN /\ AfterLoop
              /\ UNCHANGED <<cur, add_res>>
         ELSE IF IsEmpty(r.addr_info)
         THEN UNCHANGED <<pc, cur, add_res, stream, on_first_tx, sent>>
         ELSE /\ pc' = "add"
              /\ cur' = r
              /\ UNCHANGED <<add_res, stream, on_first_tx, sent>>
    /\ UNCHANGED <<envVars, calls, ret, handle, aborted, arrived, streams, book, sideVars>>

\* Variant of SelectItem that resolves the channel before the address book
\* is written.
SelectItem_sends_first(i) ==
    /\ pc = "select"
    /\ i \in MergeReady
    /\ pos' = [pos EXCEPT ![i] = @ + 1]
    /\ LET r == streams[i][pos[i] + 1] IN
         IF r.kind = "err"
         THEN /\ AfterLoop
              /\ UNCHANGED <<cur, add_res>>
         ELSE IF IsEmpty(r.addr_info)
         THEN UNCHANGED <<pc, cur, add_res, stream, on_first_tx, sent>>
         ELSE /\ pc' = "add"
              /\ cur' = r
              /\ TakeAndSend("ok")
              /\ UNCHANGED <<add_res, stream>>
    /\ UNCHANGED <<envVars, calls, ret, handle, aborted, arrived, streams, book, sideVars>>

\* select!: the branch `next = stream.next()` with an item of child i, and the
\* match on it: an empty item continues, an error breaks out of the loop.
SelectItem(i) ==
    /\ pc = "select"
    /\ i \in MergeReady
    /\ pos' = [pos EXCEPT ![i] = @ + 1]
    /\ LET r == streams[i][pos[i] + 1] IN
         IF r.kind = "err"
         THEN /\ AfterLoop
              /\ UNCHANGED <<cur, add_res>>
         ELSE IF IsEmpty(r.addr_info)
         THEN UNCHANGED <<pc, cur, add_res, stream, on_first_tx, sent>>
         ELSE /\ pc' = "add"
              /\ cur' = r
              /\ UNCHANGED <<add_res, stream, on_first_tx, sent>>
    /\ UNCHANGED <<envVars, calls, ret, handle, aborted, arrived, streams, book, sideVars>>

\* Variant of SelectEnd that goes on waiting when the stream has ended.
SelectEnd_keeps_waiting ==
    /\ pc = "select"
    /\ MergeEnded
    /\ pc' = "wait"
    /\ UNCHANGED <<envVars, calls, ret, handle, aborted, on_first_tx, sent, arrived,
                   streamVars, book, sideVars>>

\* select!: stream.next() yields None, the merged stream has ended: break.
SelectEnd ==
    /\ pc = "select"
    /\ MergeEnded
    /\ AfterLoop
    /\ UNCHANGED <<envVars, calls, ret, handle, aborted, arrived, streams, pos, cur, add_res, book,
                   sideVars>>

\* select!: no branch is ready, the future returns Pending.
SelectPending ==
    /\ pc = "select"
    /\ ~ep_cancelled
    /\ pc' = "wait"
    /\ UNCHANGED <<envVars, calls, ret, handle, aborted, on_first_tx, sent, arrived,
                   streamVars, book, sideVars>>

\* A branch of the select! wakes the task and the runtime polls it again.
Wake ==
    /\ pc = "wait"
    /\ ~aborted
    /\ pc' = "select"
    /\ UNCHANGED <<envVars, calls, ret, handle, aborted, on_first_tx, sent, arrived,
                   streamVars, book, sideVars>>

\* ep.add_node_addr(NodeAddr { info: r.addr_info, node_id }).ok(): the call
\* returns Ok or Err and .ok() discards which.
AddNodeAddr ==
    /\ pc = "add"
    /\ book' = Append(book, [node_id |-> TargetNode, info |-> cur.addr_info])
    /\ add_res' \in {"ok", "err"}
    /\ pc' = "first"
    /\ UNCHANGED <<envVars, calls, ret, handle, aborted, on_first_tx, sent, arrived,
                   streams, pos, stream, cur, sideVars>>

\* Variant of FirstResult that leaves the loop once the channel is resolved.
FirstResult_returns ==
    /\ pc = "first"
    /\ TakeAndSend("ok")
    /\ add_res' = "none"
    /\ pc' = "done"
    /\ stream' = "dropped"
    /\ UNCHANGED <<envVars, calls, ret, handle, aborted, arrived, streams, pos, cur, book,
                   sideVars>>

\* Variant of FirstResult that treats a failed add_node_addr as a stream error.
FirstResult_propagates ==
    /\ pc = "first"
    /\ add_res' = "none"
    /\ IF add_res = "err"
       THEN AfterLoop
       ELSE /\ TakeAndSend("ok")
            /\ pc' = "select"
            /\ UNCHANGED stream
    /\ UNCHANGED <<envVars, calls, ret, handle, aborted, arrived, streams, pos, cur, book,
                   sideVars>>

\* if let Some(tx) = on_first_tx.take() { tx.send(Ok(())).ok(); }
FirstResult ==
    /\ pc = "first"
    /\ TakeAndSend("ok")
    /\ add_res' = "none"
    /\ pc' = "select"
    /\ UNCHANGED <<envVars, calls, ret, handle, aborted, arrived, streams, pos, stream, cur,
                   book, sideVars>>

\* Variant of AbortTakesEffect that still sends the final error.
AbortTakesEffect_sends ==
    /\ aborted
    /\ pc \in Suspended
    /\ pc' = "aborted"
    /\ TakeAndSend("err_no_results")
    /\ stream' = IF stream = "open" THEN "dropped" ELSE stream
    /\ UNCHANGED <<envVars, calls, ret, handle, aborted, arrived, streams, pos, cur, add_res,
                   book, sideVars>>

\* Variant of AbortTakesEffect that leaves the merged stream alive.
AbortTakesEffect_keeps_stream ==
    /\ aborted
    /\ pc \in Suspended
    /\ pc' = "aborted"
    /\ on_first_tx' = IF on_first_tx = "some" THEN "dropped" ELSE on_first_tx
    /\ UNCHANGED <<envVars, calls, ret, handle, aborted, sent, arrived, streamVars,
                   book, sideVars>>

\* The runtime drops the future of an aborted task at a suspension point: the
\* sender, if still held, and the merged stream are dropped with it.
AbortTakesEffect ==
    /\ aborted
    /\ pc \in Suspended
    /\ pc' = "aborted"
    /\ on_first_tx' = IF on_first_tx = "some" THEN "dropped" ELSE on_first_tx
    /\ stream' = IF stream = "open" THEN "dropped" ELSE stream
    /\ UNCHANGED <<envVars, calls, ret, handle, aborted, sent, arrived, streams, pos, cur, add_res,
                   book, sideVars>>

\* ------------------------------------------------------------ the caller
\* DiscoveryTask::cancel
Cancel ==
    /\ handle = "held"
    /\ ~aborted
    /\ aborted' = TRUE
    /\ UNCHANGED <<envVars, calls, ret, handle, pc, on_first_tx, sent, arrived,
                   streamVars, book, sideVars>>

\* impl Drop for DiscoveryTask: aborts the task; the receiver goes with the handle.
DropHandle ==
    /\ handle = "held"
    /\ handle' = "dropped"
    /\ aborted' = TRUE
    /\ UNCHANGED <<envVars, calls, ret, pc, on_first_tx, sent, arrived, streamVars, book,
                   sideVars>>

\* DiscoveryTask::first_arrived returns: the value sent, or the RecvError of
\* a sender dropped without sending.
FirstArrived ==
    /\ handle = "held"
    /\ arrived = "pending"
    /\ \/ sent # <<>>
       \/ on_first_tx = "dropped"
    /\ arrived' = IF sent # <<>> THEN sent[1] ELSE "closed"
    /\ UNCHANGED <<envVars, calls, ret, handle, aborted, pc, on_first_tx, sent,
                   streamVars, book, sideVars>>

\* ------------------------------------------------------------ the endpoint
\* The endpoint shuts down: ep.cancelled() resolves from now on.
EndpointCancel ==
    /\ ~ep_cancelled
    /\ ret = "task"
    /\ ep_cancelled' = TRUE
    /\ UNCHANGED <<provider, services, conn_info, calls, ret, handle, aborted, pc,
                   on_first_tx, sent, arrived, streamVars, book, sideVars>>

\* Traffic from the peer (or its absence) changes the telemetry while the
\* task waits out its delay; later values are never read by the task.
TelemetryUpdate(info) ==
    /\ pc \in {"spawned_delay", "sleep"}
    /\ info # conn_info
    /\ conn_info' = info
    /\ UNCHANGED <<provider, services, ep_cancelled, calls, ret, handle, aborted, pc,
                   on_first_tx, sent, arrived, streamVars, book, sideVars>>

Next ==
    \/ Start
    \/ \E has_delay \in BOOLEAN : MaybeStartAfterDelay(has_delay)
    \/ TaskBegin
    \/ SleepElapsed
    \/ Recheck
    \/ CreateStream
    \/ SelectCancelled
    \/ \E i \in ChildIds : SelectItem(i)
    \/ SelectEnd
    \/ SelectPending
    \/ Wake
    \/ AddNodeAddr
    \/ FirstResult
    \/ AbortTakesEffect
    \/ Cancel
    \/ DropHandle
    \/ FirstArrived
    \/ EndpointCancel
    \/ \E info \in ConnInfoSamples : TelemetryUpdate(info)

Spec == Init /\ [][Next]_vars

\* ------------------------------------------------------------- SpecLive
\* A step of the spawned future.
TaskStep ==
    \/ TaskBegin
    \/ SleepElapsed
    \/ Recheck
    \/ CreateStream
    \/ SelectCancelled
    \/ \E i \in ChildIds : SelectItem(i)
    \/ SelectEnd
    \/ SelectPending
    \/ Wake
    \/ AddNodeAddr
    \/ FirstResult
    \/ AbortTakesEffect

\* The runtime keeps polling a task that can make a step; select! picks its
\* branches at random, so a stream branch that is ready again and again is
\* taken in the end; an awaited first_arrived() returns once the channel is
\* resolved or closed.
Fairness ==
    /\ WF_vars(TaskStep)
    /\ SF_vars(\E i \in ChildIds : SelectItem(i))
    /\ SF_vars(SelectEnd)
    /\ WF_vars(FirstArrived)

SpecLive == Spec /\ Fairness

\* ------------------------------------------------------------- SpecPred
\* The state before any task exists, for the given provider list and telemetry.
Idle(kind, svcs, info) ==
    /\ provider = kind
    /\ services = svcs
    /\ calls = <<>>
    /\ conn_info = info
    /\ ep_cancelled = FALSE
    /\ ret = "pending"
    /\ handle = "none"
    /\ aborted = FALSE
    /\ pc = "none"
    /\ on_first_tx = "none"
    /\ sent = <<>>
    /\ arrived = "pending"
    /\ streams = <<>>
    /\ pos = <<>>
    /\ stream = "none"
    /\ cur = ErrItem
    /\ add_res = "none"
    /\ book = <<>>
    /\ pred_called = FALSE
    /\ pred_result = FALSE
    /\ published = <<>>
    /\ pulled = <<>>

InitPred == \E info \in ConnInfos : Idle("none", empty, info)

\* One evaluation of Self::needs_discovery(ep, node_id).
CallNeedsDiscovery ==
    /\ ~pred_called
    /\ pred_called' = TRUE
    /\ pred_result' = needs_discovery(conn_info)
    /\ UNCHANGED <<envVars, calls, ret, handle, aborted, pc, on_first_tx, sent, arrived,
                   streamVars, book, published, pulled>>

NextPred == CallNeedsDiscovery

SpecPred == InitPred /\ [][NextPred]_vars

\* -------------------------------------------------------------- SpecAgg
\* Lists of distinct children of length at most n.
ServiceLists(n) ==
    {s \in UNION {[1..k -> ChildIds] : k \in 0..n} :
        \A i, j \in 1..Len(s) : i # j => s[i] # s[j]}

InitAgg ==
    \E svcs \in ServiceLists(MaxChildren) :
        \/ Idle("concurrent", from_services(svcs), NoConnInfo)
        \/ Idle("concurrent", from(svcs), NoConnInfo)

\* disco.add(service) with a service not registered yet.
AggAdd(c) ==
    /\ Len(services) < MaxChildren
    /\ \A i \in 1..Len(services) : services[i] # c
    /\ services' = add(services, c)
    /\ UNCHANGED <<provider, conn_info, ep_cancelled, calls, ret, handle, aborted, pc,
                   on_first_tx, sent, arrived, streamVars, book, sideVars>>

\* disco.publish(&info) on the aggregator.
AggPublish(info) ==
    /\ Len(published) < MaxPublish
    /\ published' = Append(published, info)
    /\ calls' = publish(services, calls, info)
    /\ UNCHANGED <<envVars, ret, handle, aborted, pc, on_first_tx, sent, arrived,
                   streamVars, book, pred_called, pred_result, pulled>>

NextAgg ==
    \/ \E c \in ChildIds : AggAdd(c)
    \/ \E info \in AddrInfos : AggPublish(info)

SpecAgg == InitAgg /\ [][NextAgg]_vars

\* ------------------------------------------------------------ SpecMerge
\* A consumer of the stream returned by ConcurrentDiscovery::resolve.
InitMerge ==
    \E n \in 0..MaxChildren :
        Idle("concurrent", from_services([i \in 1..n |-> i]), NoConnInfo)

\* disco.resolve(ep, node_id) on the aggregator: every child is asked, the
\* substreams of those that answer are merged, the result is always Some.
MergeResolve ==
    /\ stream = "none"
    /\ calls' = resolve_from(services, 1, calls, TargetNode)
    /\ streams' \in ResolveOutcomes(Len(services), MaxItems)
    /\ pos' = [i \in 1..Len(services) |-> 0]
    /\ stream' = "open"
    /\ UNCHANGED <<envVars, ret, handle, aborted, pc, on_first_tx, sent, arrived, cur,
                   add_res, book, sideVars>>

\* stream.next() yields the next item of child i.
MergeNext(i) ==
    /\ stream = "open"
    /\ i \in MergeReady
    /\ pos' = [pos EXCEPT ![i] = @ + 1]
    /\ pulled' = Append(pulled, [child |-> i, item |-> streams[i][pos[i] + 1]])
    /\ UNCHANGED <<envVars, calls, ret, handle, aborted, pc, on_first_tx, sent, arrived,
                   streams, stream, cur, add_res, book, pred_called, pred_result,
                   published>>

\* stream.next() yields None: every merged substream has ended.
MergeNextEnd ==
    /\ stream = "open"
    /\ MergeEnded
    /\ stream' = "ended"
    /\ UNCHANGED <<envVars, calls, ret, handle, aborted, pc, on_first_tx, sent, arrived,
                   streams, pos, cur, add_res, book, sideVars>>

\* The consumer drops the merged stream, and with it every substream.
MergeDrop ==
    /\ stream = "open"
    /\ stream' = "dropped"
    /\ UNCHANGED <<envVars, calls, ret, handle, aborted, pc, on_first_tx, sent, arrived,
                   streams, pos, cur, add_res, book, sideVars>>

NextMerge ==
    \/ MergeResolve
    \/ \E i \in ChildIds : MergeNext(i)
    \/ MergeNextEnd
    \/ MergeDrop

SpecMerge == InitMerge /\ [][NextMerge]_vars

\* ================================================================ claims
\* The task has terminated: run to completion, or dropped by an abort.
Terminated == pc \in {"done", "aborted"}

\* C1 (as stated): in every lifecycle, however it ends (cancel() and handle
\* drop included), the first-result channel is resolved exactly once.
C1_ExactlyOnceAlways == Terminated => Len(sent) = 1

\* C1 (amended): the channel is resolved at most once; exactly once when the
\* task runs to completion; and never by a task that an abort dropped while
\* it still held the sender.
C1_AtMostOnce ==
    /\ Len(sent) <= 1
    /\ pc = "done" => Len(sent) = 1
    /\ (pc = "aborted" /\ on_first_tx = "dropped") => Len(sent) = 0
    /\ (on_first_tx = "taken") <=> (Len(sent) = 1)

C1_Witness == pc = "done" /\ stream = "dropped" /\ Len(sent) = 1 /\ Len(book) = 2

\* C2 (as stated): whenever the channel is resolved, it is resolved with
\* success iff a non-empty item was consumed (and written) before.
C2_SuccessIffItem ==
    [][(sent = <<>> /\ sent' # <<>>) => (sent'[1] = "ok" <=> Len(book) > 0)]_vars

\* C2 (amended): the channel is resolved with success iff a non-empty item
\* was consumed before, or the resolution is the early exit of the delay
\* path, whose re-check found discovery no longer needed.
C2_SuccessIffItemOrRecheck ==
    [][(sent = <<>> /\ sent' # <<>>) =>
          (sent'[1] = "ok" <=>
              (Len(book) > 0 \/ (pc = "recheck" /\ ~needs_discovery(conn_info))))]_vars

C2_Witness == sent = <<"ok">> /\ Len(book) = 1 /\ pc = "select"

\* C3 (as stated): with children {A, B, C}, B yielding an error and A a
\* non-empty record, and no cancellation, first_arrived() returns success
\* whatever the order in which the merge delivers the items.
C3_MergeResilience ==
    ( /\ provider = "concurrent"
      /\ Len(streams) = 3
      /\ streams[2] = <<ErrItem>>
      /\ streams[1] # NoStream
      /\ \E k \in 1..Len(streams[1]) :
            streams[1][k].kind = "ok" /\ ~IsEmpty(streams[1][k].addr_info)
      /\ ~aborted
      /\ ~ep_cancelled
      /\ arrived # "pending" )
    => arrived = "ok"

\* An item with empty AddrInfo has just been taken from the merged stream.
EmptyConsumed ==
    \E i \in 1..Len(pos) :
        /\ Len(pos') = Len(pos)
        /\ pos'[i] = pos[i] + 1
        /\ streams[i][pos'[i]].kind = "ok"
        /\ IsEmpty(streams[i][pos'[i]].addr_info)

\* C4: an item with empty AddrInfo is never passed to add_node_addr and never
\* resolves the channel; consuming it leaves the sender as it was and the
\* task in the loop.
C4_EmptySkipped ==
    /\ [](\A k \in 1..Len(book) : ~IsEmpty(book[k].info))
    /\ [][EmptyConsumed =>
            (book' = book /\ sent' = sent /\ on_first_tx' = on_first_tx /\ pc' = "select")]_vars

C4_Witness ==
    /\ pc = "select"
    /\ on_first_tx = "some"
    /\ book = <<>>
    /\ \E i \in 1..Len(pos) : pos[i] = 1 /\ streams[i][1] = OkItem(EmptyAddrInfo)

\* C5 (as stated): once cancel() has been called or the handle dropped, the
\* task makes no further add_node_addr call.
C5_NoWriteAfterAbort == [][aborted => book' = book]_vars

\* C6: on the delay path, when the re-check finds discovery no longer needed,
\* the task resolves the channel with success and exits; no provider's
\* resolve has been called and the address book has not been written.
C6_DelayGating ==
    /\ [](pc \in {"spawned_delay", "sleep", "recheck"} => (calls = <<>> /\ book = <<>>))
    /\ [][(pc = "recheck" /\ pc' # pc /\ ~needs_discovery(conn_info)) =>
            (pc' = "done" /\ sent' = <<"ok">> /\ calls' = <<>> /\ book' = <<>>
               /\ stream' = "none")]_vars

C6_Witness ==
    /\ pc = "done"
    /\ sent = <<"ok">>
    /\ calls = <<>>
    /\ book = <<>>
    /\ conn_info = ConnInfo(MAX_AGE, NoDuration)

\* The decision table of the needs-discovery predicate.
DecisionTable(info) ==
    LET d == info.last_received
        r == info.last_alive_relay
    IN  \/ ~info.known
        \/ d = NoDuration /\ r = NoDuration
        \/ d # NoDuration /\ r = NoDuration /\ d > MAX_AGE
        \/ d = NoDuration /\ r # NoDuration /\ r > MAX_AGE
        \/ d # NoDuration /\ r # NoDuration /\ d > MAX_AGE /\ r > MAX_AGE

\* C7: needs_discovery agrees with the decision table on every telemetry
\* input; an elapsed time equal to MAX_AGE counts as fresh.
C7_PredicateTable == pred_called => (pred_result <=> DecisionTable(conn_info))

C7_Witness ==
    /\ pred_called
    /\ conn_info = ConnInfo(MAX_AGE + 1, MAX_AGE)
    /\ pred_result = FALSE

\* C8: one publish on the aggregator calls publish once on each child, in
\* registration order, with the AddrInfo given, and calls no resolve.
C8_PublishFanOut ==
    [][published' # published =>
         LET info == published'[Len(published')]
             n == Len(calls)
         IN  /\ Len(calls') = n + Len(services)
             /\ \A k \in 1..n : calls'[k] = calls[k]
             /\ \A i \in 1..Len(services) : calls'[n + i] = PublishCall(services[i], info)
             /\ \A i \in 1..Len(services) :
                   Cardinality({k \in (n + 1)..Len(calls') : calls'[k].child = services[i]}) = 1
             /\ \A k \in (n + 1)..Len(calls') : calls'[k].op # "resolve"]_vars

C8_Witness ==
    /\ Len(published) = 2
    /\ Len(services) = 3
    /\ Len(calls) = 5

CancelledBeforeFirst ==
    /\ pc = "select"
    /\ ep_cancelled
    /\ ~MergeEnded
    /\ pos' = pos
    /\ pc' = "done"
    /\ on_first_tx = "some"

\* C10 (as stated): a task ended by endpoint cancellation before it resolved
\* the channel sends nothing; first_arrived() sees the channel closed.
C10_ShutdownClosesChannel ==
    [][CancelledBeforeFirst => (sent' = <<>> /\ on_first_tx' = "dropped")]_vars

\* C10 (amended): a task ended by endpoint cancellation before it resolved
\* the channel sends the error "Discovery produced no results", which
\* first_arrived() returns; the closed channel is seen only after an abort.
C10_ShutdownSendsNoResults ==
    /\ [][CancelledBeforeFirst => (sent' = <<"err_no_results">> /\ on_first_tx' = "taken")]_vars
    /\ [](arrived = "closed" => pc = "aborted")
    /\ []((pc = "done" /\ handle = "held" /\ arrived # "pending") => arrived = sent[1])

C10_Witness ==
    /\ pc = "done"
    /\ ep_cancelled
    /\ ~aborted
    /\ ~MergeEnded
    /\ \A i \in 1..Len(pos) : pos[i] = 0
    /\ arrived = "err_no_results"


\* The step is a call of maybe_start_after_delay, with or without a delay.
MaybeStartCalled == \E has_delay \in BOOLEAN : MaybeStartAfterDelay(has_delay)

\* No task exists: nothing was spawned and no channel was created.
NoTask == pc = "none" /\ handle = "none" /\ on_first_tx = "none"

\* C11: without a provider, maybe_start_after_delay returns "no task" iff the
\* predicate says discovery is not needed and the configuration error
\* otherwise; no task is spawned either way.
C11_NoProviderGated ==
    /\ [](provider = "none" => (NoTask /\ calls = <<>>))
    /\ [][(MaybeStartCalled /\ provider = "none") =>
            /\ ret' = "no_task" <=> ~needs_discovery(conn_info)
            /\ ret' = "err_no_discovery" <=> needs_discovery(conn_info)
            /\ NoTask']_vars

C11_Witness == provider = "none" /\ ret = "no_task" /\ ~needs_discovery(conn_info)

\* C12: start returns the configuration error, spawning nothing, creating no
\* channel and calling no resolve, when there is no provider; with a provider
\* it returns a task spawned at once, whatever the predicate says.
C12_StartUnconditional ==
    [][Start =>
         IF provider = "none"
         THEN ret' = "err_no_discovery" /\ NoTask' /\ calls' = calls /\ book' = book
         ELSE /\ ret' = "task"
              /\ handle' = "held"
              /\ on_first_tx' = "some"
              /\ pc' = "spawned_run"]_vars

C12_Witness ==
    /\ ret = "task"
    /\ pc = "create_stream"
    /\ ~needs_discovery(conn_info)

\* C13: if the predicate is false when maybe_start_after_delay is called, it
\* returns "no task" and changes nothing else, with or without a delay; no
\* task, no resolve call and no address-book write follow.
C13_NotNeededNoEffect ==
    /\ [](ret = "no_task" => (NoTask /\ calls = <<>> /\ book = <<>> /\ stream = "none"))
    /\ [][(MaybeStartCalled /\ ~needs_discovery(conn_info)) =>
            /\ ret' = "no_task"
            /\ UNCHANGED <<provider, services, calls, conn_info, ep_cancelled, handle,
                           aborted, pc, on_first_tx, sent, arrived, streams, pos, stream,
                           cur, add_res, book>>]_vars

C13_Witness ==
    /\ ret = "no_task"
    /\ provider = "concurrent"
    /\ Len(services) = 2


\* Every child of the aggregator answered resolve with None.
AllDeclined ==
    /\ provider = "concurrent"
    /\ stream # "none"
    /\ \A i \in 1..Len(streams) : streams[i] = NoStream

\* C14: when every child of the aggregator declines (zero children included),
\* resolve still returns a stream, which is empty, and the task running over
\* it ends with "Discovery produced no results", never with the error of a
\* provider that cannot resolve the id.
C14_AllDeclineNoResults ==
    /\ (provider = "concurrent" /\ pc = "done" /\ stream = "none") => sent = <<"ok">>
    /\ (AllDeclined /\ stream = "open") => MergeEnded
    /\ (AllDeclined /\ pc = "done") => sent = <<"err_no_results">>
    /\ provider = "concurrent" => \A k \in 1..Len(sent) : sent[k] # "err_no_resolve"

C14_Witness ==
    /\ AllDeclined
    /\ Len(streams) >= 2
    /\ pc = "done"
    /\ ~ep_cancelled
    /\ sent = <<"err_no_results">>

\* Child i's substream is held by a merged stream that is still alive.
ChildActive(i) == stream = "open" /\ streams[i] # NoStream

\* C15: once the task has terminated, by stream error, stream end, endpoint
\* cancellation, cancel() or handle drop, the merged stream is dropped and no
\* child substream is active any more.
C15_NoChildActiveAfterEnd ==
    Terminated => \A i \in 1..Len(streams) : ~ChildActive(i)

C15_Witness ==
    /\ pc = "aborted"
    /\ stream = "dropped"
    /\ \E i \in MergeReady : \E j \in MergeReady : i # j

\* C17 (as stated): once the endpoint cancellation has fired, a task at its
\* select! takes no further item from the stream.
C17_NoItemAfterEndpointCancel ==
    [][(ep_cancelled /\ pc = "select") => pos' = pos]_vars

\* Items consumed so far that carry a non-empty AddrInfo, as <<child, index>>.
NonEmptyConsumed ==
    {ik \in (1..Len(streams)) \X (1..MaxItems + 1) :
        /\ streams[ik[1]] # NoStream
        /\ ik[2] <= pos[ik[1]]
        /\ streams[ik[1]][ik[2]].kind = "ok"
        /\ ~IsEmpty(streams[ik[1]][ik[2]].addr_info)}

\* An error item has been consumed from the merged stream.
ErrConsumed ==
    \E i \in 1..Len(streams) :
        /\ streams[i] # NoStream
        /\ pos[i] >= 1
        /\ streams[i][pos[i]].kind = "err"

\* C18: the task keeps running after the first success: every non-empty item
\* consumed, the first and the later ones, is written to the address book,
\* the channel is resolved at most once, and the loop is left only when the
\* stream ends or errors or the endpoint is cancelled.
C18_ContinuesAfterFirst ==
    /\ Len(book) = Cardinality(NonEmptyConsumed) - (IF pc = "add" THEN 1 ELSE 0)
    /\ Len(sent) <= 1
    /\ (pc \in {"select", "wait"} /\ NonEmptyConsumed # {}) => sent = <<"ok">>
    /\ (pc = "done" /\ stream = "dropped") => (MergeEnded \/ ErrConsumed \/ ep_cancelled)

C18_Witness ==
    /\ Len(book) = 2
    /\ sent = <<"ok">>
    /\ pc = "select"
    /\ ~aborted


\* C19: a failed add_node_addr neither fails nor stops the task: the step
\* after it resolves the channel with success if the sender was unused, sends
\* nothing otherwise, and returns to the select! with the stream still open.
C19_AddFailureSwallowed ==
    /\ [](add_res = "err" => (pc = "first" /\ stream = "open"))
    /\ [][(pc = "first" /\ add_res = "err" /\ pc' # pc) =>
            /\ pc' = "select"
            /\ stream' = "open"
            /\ on_first_tx = "some" => (sent' = <<"ok">> /\ on_first_tx' = "taken")
            /\ on_first_tx # "some" => (sent' = sent /\ on_first_tx' = on_first_tx)]_vars

C19_Witness ==
    /\ pc = "first"
    /\ add_res = "err"
    /\ on_first_tx = "some"
    /\ MergeReady # {}


\* The items the consumer received from child i, in the order received.
PulledFrom(i) ==
    LET sub == SelectSeq(pulled, LAMBDA e : e.child = i)
    IN  [k \in 1..Len(sub) |-> sub[k].item]

\* C16: in the merged stream an error item of one child ends neither the
\* stream nor the siblings' substreams: a consumer that pulls until the stream
\* ends has received every item of every child, and only what they produced.
C16_ErrorKeepsSiblings ==
    /\ \A i \in 1..Len(streams) :
         /\ streams[i] = NoStream => PulledFrom(i) = <<>>
         /\ streams[i] # NoStream => PulledFrom(i) = SubSeq(streams[i], 1, pos[i])
    /\ stream = "ended" =>
         \A i \in 1..Len(streams) : streams[i] # NoStream => pos[i] = Len(streams[i])

C16_Witness ==
    /\ stream = "ended"
    /\ \E a, b \in 1..Len(pulled) :
         /\ a < b
         /\ pulled[a].item.kind = "err"
         /\ pulled[b].child # pulled[a].child
         /\ pulled[b].item.kind = "ok"


\* The next item of some child of the merged stream is a failure.
NextIsErr ==
    \E i \in MergeReady : streams[i][pos[i] + 1].kind = "err"

\* C20: under fair scheduling each terminating signal (the end or a failure
\* of the merged stream, the endpoint cancellation, cancel() or drop of the
\* handle) leads to a state where the task has terminated and first_arrived()
\* is no longer pending: it has returned, or the handle is gone.
TerminatingSignal ==
    /\ ret = "task"
    /\ \/ stream = "open" /\ (MergeEnded \/ NextIsErr)
       \/ ep_cancelled
       \/ aborted

C20_SignalsTerminate ==
    TerminatingSignal ~> (Terminated /\ (arrived # "pending" \/ handle = "dropped"))

C20_Witness ==
    /\ pc = "done"
    /\ ep_cancelled
    /\ MergeReady # {}
    /\ arrived = "err_no_results"


\* The top-level provider was asked and answered None.
ProviderDeclined ==
    /\ provider = "single"
    /\ calls # <<>>
    /\ stream = "none"

\* C21: when the top-level provider declines the node id, the task resolves
\* the channel with "No discovery service can resolve node", writes nothing to
\* the address book and terminates without entering the loop.
C21_DeclineFailsTask ==
    /\ ProviderDeclined =>
         /\ pc = "done"
         /\ sent = <<"err_no_resolve">>
         /\ on_first_tx = "taken"
         /\ book = <<>>
         /\ pos = <<>>
    /\ (sent # <<>> /\ sent[1] = "err_no_resolve") => ProviderDeclined
    /\ (provider = "single" /\ stream # "none") => streams[1] # NoStream

C21_Witness ==
    /\ ProviderDeclined
    /\ arrived = "err_no_resolve"

C23_WriteBeforeSuccess ==
    /\ (sent = <<"ok">> /\ stream # "none") =>
         /\ book # <<>>
         /\ \E ik \in NonEmptyConsumed :
              book[1] = [node_id |-> TargetNode,
                         info |-> streams[ik[1]][ik[2]].addr_info]
    /\ (pc = "first" /\ on_first_tx = "some") =>
         /\ book # <<>>
         /\ book[Len(book)] = [node_id |-> TargetNode, info |-> cur.addr_info]

C23_Witness ==
    /\ arrived = "ok"
    /\ stream = "open"
    /\ Len(book) = 1

\* C24: a task on the delay path whose handle is cancelled or dropped before
\* the delay has elapsed never calls resolve and never writes the address
\* book; and no task asks the top-level provider to resolve more than once.
C24_AbortInDelayNoResolve ==
    /\ [][(aborted /\ pc \in {"spawned_delay", "sleep"}) =>
            /\ pc' \in {pc, "aborted"}
            /\ calls' = <<>>
            /\ book' = <<>>]_vars
    /\ [][pc = "aborted" => (pc' = pc /\ calls' = calls /\ book' = book)]_vars
    /\ [](calls \in {<<>>, resolve_from(services, 1, <<>>, TargetNode)})
    /\ [](provider = "single" => Len(calls) <= 1)

C24_Witness ==
    /\ pc = "sleep"
    /\ aborted
    /\ handle = "dropped"
    /\ needs_discovery(conn_info)

====
